---- MODULE Spec2Model ----
(***************************************************************************)
(* Model of the QR-code generator script (scripts/src/main.py) and of its  *)
(* smoke test (scripts/tests/test_main.py).                                *)
(*                                                                         *)
(* generate_qr_code is modelled statement by statement.  The calls it      *)
(* makes into the qrcode library (QRCode, add_data, make(fit=True),        *)
(* make_image, save) are modelled by what those calls do: fit sizing       *)
(* searches the smallest symbol version, from the configured one, whose    *)
(* capacity holds the payload, and save opens the final path for writing   *)
(* (truncating it) and writes the image sequentially.                      *)
(***************************************************************************)
EXTENDS Integers, Sequences, FiniteSets

VARIABLES
    fs,               \* the filesystem: path -> [exists, data]
    fsBefore,         \* fs as it was when the current call was made
    cwdWritable,      \* environment: the working directory accepts new entries
    diskFull,         \* environment: the device may run out of space in a write
    pc,               \* per run: position inside generate_qr_code
    url,              \* per run: argument url
    output_filename,  \* per run: argument output_filename
    qr,               \* per run: the QRCode object
    img,              \* per run: the rendered image
    pos,              \* per run: write offset of the open file
    created,          \* per run: the open created the file
    out,              \* per run: lines printed on stdout
    exc,              \* per run: the exception that left generate_qr_code
    hist,             \* per run: finished calls, in order
    entry,            \* how generate_qr_code is driven: "main", "direct", "test"
    mpc,              \* position of the script entry point
    exitStatus,       \* exit status of the script process (-1: running)
    tpc,              \* position of the test module / test function
    sysPath,          \* sys.path entries of the test process
    imported,         \* outcome of "from main import generate_qr_code"
    appended,         \* the sys.path.append of the test module has run
    outcome           \* outcome of test_generate_qr_code

vars == <<fs, fsBefore, cwdWritable, diskFull, pc, url, output_filename, qr, img,
          pos, created, out, exc, hist, entry, mpc, exitStatus, tpc, sysPath,
          imported, appended, outcome>>

genVars == <<pc, url, output_filename, qr, img, pos, created, out, exc, hist>>
mainVars == <<mpc, exitStatus>>
testVars == <<tpc, sysPath, imported, appended, outcome>>
envVars == <<cwdWritable, diskFull, entry>>

-----------------------------------------------------------------------------
(* Bounds of the model. *)

\* Number of sequential writes save needs for one image file.
ImgChunks == 2
\* Number of calls one direct caller makes in sequence.
MaxCalls == 2
\* Longest payload, in characters, a caller passes.
MaxLen == 7100

Procs == {1, 2}

-----------------------------------------------------------------------------
(* The arguments of generate_qr_code as written in the source. *)

Version == 1
ERROR_CORRECT_L == "L"
BoxSize == 10
Border == 4
FillColor == "black"
BackColor == "white"

\* A target string is modelled by the encoding mode the library picks for it
\* and by its length: a string of digits, of upper-case alphanumerics, or of
\* arbitrary bytes.
Modes == {"NUMBER", "ALPHA_NUM", "8BIT_BYTE"}

Str(mode, len) == [mode |-> mode, len |-> len]

MainUrl == Str("8BIT_BYTE", 19)            \* "https://irishlab.io"
MainFilename == "website_qr.png"
TestUrl == Str("8BIT_BYTE", 19)            \* "https://example.com"
TestFilename == "test_qr.png"
\* A path in a directory that does not exist.
BadPath == "/missing_dir/qr.png"

Paths == {MainFilename, TestFilename, BadPath}

-----------------------------------------------------------------------------
(* The encoder's fit sizing: qr.add_data(url); qr.make(fit=True).          *)

\* Data codewords of versions 1..40 at error-correction level L.  The bit
\* limit of a version is eight times its data codewords.
DataCodewordsL ==
    << 19, 34, 55, 80, 108, 136, 156, 194, 232, 274,
       324, 370, 428, 461, 523, 589, 647, 721, 795, 861,
       932, 1006, 1094, 1174, 1276, 1370, 1468, 1531, 1631, 1735,
       1843, 1955, 2071, 2191, 2306, 2434, 2566, 2702, 2812, 2956 >>

MaxVersion == Len(DataCodewordsL)

BitLimit(v) == 8 * DataCodewordsL[v]

\* The three classes of versions that share the width of the length field.
SizeClass(v) == IF v < 10 THEN "small" ELSE IF v < 27 THEN "medium" ELSE "large"

LengthBits(mode, v) ==
    CASE SizeClass(v) = "small" ->
             (CASE mode = "NUMBER" -> 10 [] mode = "ALPHA_NUM" -> 9 [] OTHER -> 8)
      [] SizeClass(v) = "medium" ->
             (CASE mode = "NUMBER" -> 12 [] mode = "ALPHA_NUM" -> 11 [] OTHER -> 16)
      [] OTHER ->
             (CASE mode = "NUMBER" -> 14 [] mode = "ALPHA_NUM" -> 13 [] OTHER -> 16)

\* Bits of the payload itself: digits in groups of three, alphanumerics in
\* pairs, bytes one by one.
DataBits(s) ==
    CASE s.mode = "NUMBER" ->
             10 * (s.len \div 3)
               + (CASE s.len % 3 = 1 -> 4 [] s.len % 3 = 2 -> 7 [] OTHER -> 0)
      [] s.mode = "ALPHA_NUM" -> 11 * (s.len \div 2) + 6 * (s.len % 2)
      [] OTHER -> 8 * s.len

\* Bits the data list needs in a symbol of version v: per chunk a 4-bit mode
\* indicator, the length field and the payload.
RECURSIVE NeededBits(_, _)
NeededBits(data_list, v) ==
    IF data_list = << >> THEN 0
    ELSE 4 + LengthBits(Head(data_list).mode, v) + DataBits(Head(data_list))
           + NeededBits(Tail(data_list), v)

\* bisect_left over the bit-limit table from index start: the first version
\* whose limit is at least bits, or MaxVersion + 1.
BisectLeft(bits, start) ==
    LET fits == {v \in start..MaxVersion : BitLimit(v) >= bits}
    IN  IF fits = {} THEN MaxVersion + 1
        ELSE CHOOSE v \in fits : \A w \in fits : v <= w

\* best_fit(start): the smallest version from start that holds the data,
\* computed again when the version found widens the length field.
\* MaxVersion + 1 stands for DataOverflowError.
RECURSIVE BestFit(_, _)
BestFit(data_list, start) ==
    LET v == BisectLeft(NeededBits(data_list, start), start)
    IN  IF v > MaxVersion THEN v
        ELSE IF SizeClass(v) # SizeClass(start) THEN BestFit(data_list, v)
        ELSE v

\* Variant: make(fit=False), which keeps the configured version and
\* overflows when the data exceed it.
FitVersionNoFit(q) ==
    IF NeededBits(q.data_list, q.version) <= BitLimit(q.version)
    THEN q.version
    ELSE MaxVersion + 1

\* The version make selects: with fit sizing the search starts at the
\* configured version.
FitVersion(q) == BestFit(q.data_list, q.version)

\* Variant: a module size chosen from the length of the data.
NewQRCodeSized(data) ==
    [version |-> Version, error_correction |-> ERROR_CORRECT_L,
     box_size |-> IF data.len > 100 THEN 5 ELSE BoxSize,
     border |-> Border, data_list |-> << data >>]

\* The QRCode object after construction and add_data.
NewQRCode(data) ==
    [version |-> Version, error_correction |-> ERROR_CORRECT_L,
     box_size |-> BoxSize, border |-> Border, data_list |-> << data >>]

NoQr ==
    [version |-> 0, error_correction |-> "", box_size |-> 0, border |-> 0,
     data_list |-> << >>]

\* The image make_image renders from a made QRCode.
MakeImage(q) ==
    [data |-> q.data_list, version |-> q.version, box_size |-> q.box_size,
     border |-> q.border, fill_color |-> FillColor, back_color |-> BackColor]

NoImg ==
    [data |-> << >>, version |-> 0, box_size |-> 0, border |-> 0,
     fill_color |-> "", back_color |-> ""]

\* Side of the image in pixels: 17 + 4 * version modules plus the border on
\* both sides, each box_size pixels wide.
PixelSize(i) == (17 + 4 * i.version + 2 * i.border) * i.box_size

\* The image generate_qr_code renders for a target that fits.
ImageOf(t) == MakeImage([NewQRCode(t) EXCEPT !.version = FitVersion(NewQRCode(t))])

-----------------------------------------------------------------------------
(* Files. *)

Chunk(i, k) == [img |-> i, idx |-> k]
Hole == Chunk(NoImg, 0)

Absent == [exists |-> FALSE, data |-> << >>]
EmptyFile == [exists |-> TRUE, data |-> << >>]
ImageFile(i) == [exists |-> TRUE, data |-> [k \in 1..ImgChunks |-> Chunk(i, k)]]

FileSize(file) == Len(file.data)

\* Contents of a file after a write of chunk c at offset k (in chunks): a
\* write beyond the end leaves a hole before it.
WriteAt(data, k, c) ==
    [j \in 1..(IF Len(data) > k + 1 THEN Len(data) ELSE k + 1) |->
        IF j = k + 1 THEN c ELSE IF j <= Len(data) THEN data[j] ELSE Hole]

\* open(path, "wb") succeeds on an existing file, and on a new one when its
\* directory exists and accepts entries.
CanOpen(f) == f # BadPath /\ (fs[f].exists \/ cwdWritable)

\* The exception of an open that fails.
OpenError(f) == IF f = BadPath THEN "FileNotFoundError" ELSE "PermissionError"

\* Targets a caller passes: for each mode, the lengths on both sides of each
\* version's capacity, the shortest string and the length of the literals.
FitOfLen(mode, n) == FitVersion(NewQRCode(Str(mode, n)))

BoundaryLens(m) ==
    {k \in 1..MaxLen :
        \/ k \in {1, MainUrl.len, MaxLen}
        \/ FitOfLen(m, k) # FitOfLen(m, k + 1)
        \/ (k > 1 /\ FitOfLen(m, k - 1) # FitOfLen(m, k))}

Targets == UNION {{Str(m, n) : n \in BoundaryLens(m)} : m \in Modes}

StaleUrl == Str("8BIT_BYTE", 5)
StaleFile == ImageFile(ImageOf(StaleUrl))

-----------------------------------------------------------------------------
(* generate_qr_code(url, output_filename), one run per process p. *)

Finished(p) == pc[p] \in {"returned", "raised"}

\* The record a finished call leaves in the caller's history.
CallRecord(p, result, e, file) ==
    [url |-> url[p], output_filename |-> output_filename[p],
     result |-> result, exc |-> e, file |-> file]

\* A caller enters generate_qr_code with arguments t and f.
Call(p, t, f) ==
    /\ pc[p] \in {"idle", "returned", "raised"}
    /\ pc' = [pc EXCEPT ![p] = "begin"]
    /\ url' = [url EXCEPT ![p] = t]
    /\ output_filename' = [output_filename EXCEPT ![p] = f]
    /\ qr' = [qr EXCEPT ![p] = NoQr]
    /\ img' = [img EXCEPT ![p] = NoImg]
    /\ exc' = [exc EXCEPT ![p] = "none"]
    /\ pos' = [pos EXCEPT ![p] = 0]
    /\ created' = [created EXCEPT ![p] = FALSE]
    /\ fsBefore' = fs
    /\ UNCHANGED <<fs, out, hist>>

\* An exception e leaves generate_qr_code: nothing catches it there.
Raise(p, e, file) ==
    /\ pc' = [pc EXCEPT ![p] = "raised"]
    /\ exc' = [exc EXCEPT ![p] = e]
    /\ hist' = [hist EXCEPT ![p] = Append(@, CallRecord(p, "raised", e, file))]

\* Lines 5-13: the first print, the QRCode construction, add_data.
GenBegin(p) ==
    /\ pc[p] = "begin"
    /\ out' = [out EXCEPT ![p] = Append(@, "Generating QR code for: {url}")]
    /\ qr' = [qr EXCEPT ![p] = NewQRCode(url[p])]
    /\ pc' = [pc EXCEPT ![p] = "make"]
    /\ UNCHANGED <<fs, fsBefore, url, output_filename, img, pos, created, exc, hist>>
    /\ UNCHANGED <<envVars, mainVars, testVars>>

\* Variant: a capacity check of its own before make, which rejects what the
\* configured version cannot hold.
QrMakeChecked(p) ==
    /\ pc[p] = "make"
    /\ IF NeededBits(qr[p].data_list, qr[p].version) > BitLimit(qr[p].version)
       THEN /\ Raise(p, "DataOverflowError", fs[output_filename[p]])
            /\ UNCHANGED qr
       ELSE /\ qr' = [qr EXCEPT ![p].version = FitVersion(qr[p])]
            /\ pc' = [pc EXCEPT ![p] = "make_image"]
            /\ UNCHANGED <<exc, hist>>
    /\ UNCHANGED <<fs, fsBefore, url, output_filename, img, pos, created, out>>
    /\ UNCHANGED <<envVars, mainVars, testVars>>

\* Line 14: qr.make(fit=True).
QrMake(p) ==
    /\ pc[p] = "make"
    /\ LET v == FitVersion(qr[p])
       IN  IF v > MaxVersion
           THEN /\ Raise(p, "DataOverflowError", fs[output_filename[p]])
                /\ UNCHANGED qr
           ELSE /\ qr' = [qr EXCEPT ![p].version = v]
                /\ pc' = [pc EXCEPT ![p] = "make_image"]
                /\ UNCHANGED <<exc, hist>>
    /\ UNCHANGED <<fs, fsBefore, url, output_filename, img, pos, created, out>>
    /\ UNCHANGED <<envVars, mainVars, testVars>>

\* Line 17: img = qr.make_image(fill_color="black", back_color="white").
QrMakeImage(p) ==
    /\ pc[p] = "make_image"
    /\ img' = [img EXCEPT ![p] = MakeImage(qr[p])]
    /\ pc' = [pc EXCEPT ![p] = "save"]
    /\ UNCHANGED <<fs, fsBefore, url, output_filename, qr, pos, created, out, exc, hist>>
    /\ UNCHANGED <<envVars, mainVars, testVars>>

\* Variant: an exclusive open, which refuses a path that holds a file.
SaveOpenExclusive(p) ==
    /\ pc[p] = "save"
    /\ LET f == output_filename[p]
       IN  IF CanOpen(f) /\ ~fs[f].exists
           THEN /\ fs' = [fs EXCEPT ![f] = EmptyFile]
                /\ created' = [created EXCEPT ![p] = TRUE]
                /\ pos' = [pos EXCEPT ![p] = 0]
                /\ pc' = [pc EXCEPT ![p] = "writing"]
                /\ UNCHANGED <<exc, hist>>
           ELSE /\ Raise(p, IF fs[f].exists THEN "FileExistsError" ELSE OpenError(f), fs[f])
                /\ UNCHANGED <<fs, created, pos>>
    /\ UNCHANGED <<fsBefore, url, output_filename, qr, img, out>>
    /\ UNCHANGED <<envVars, mainVars, testVars>>

\* Variant: an open that takes a lock on the path and waits while another
\* run is writing it.
SaveOpenLocked(p) ==
    /\ pc[p] = "save"
    /\ \A q \in Procs \ {p} :
         ~(pc[q] = "writing" /\ output_filename[q] = output_filename[p])
    /\ LET f == output_filename[p]
       IN  IF CanOpen(f)
           THEN /\ fs' = [fs EXCEPT ![f] = EmptyFile]
                /\ created' = [created EXCEPT ![p] = ~fs[f].exists]
                /\ pos' = [pos EXCEPT ![p] = 0]
                /\ pc' = [pc EXCEPT ![p] = "writing"]
                /\ UNCHANGED <<exc, hist>>
           ELSE /\ Raise(p, OpenError(f), fs[f])
                /\ UNCHANGED <<fs, created, pos>>
    /\ UNCHANGED <<fsBefore, url, output_filename, qr, img, out>>
    /\ UNCHANGED <<envVars, mainVars, testVars>>

\* Line 18, img.save(output_filename), its open: the final path itself is
\* opened for writing, which creates it or truncates what it holds.
SaveOpen(p) ==
    /\ pc[p] = "save"
    /\ LET f == output_filename[p]
       IN  IF CanOpen(f)
           THEN /\ fs' = [fs EXCEPT ![f] = EmptyFile]
                /\ created' = [created EXCEPT ![p] = ~fs[f].exists]
                /\ pos' = [pos EXCEPT ![p] = 0]
                /\ pc' = [pc EXCEPT ![p] = "writing"]
                /\ UNCHANGED <<exc, hist>>
           ELSE /\ Raise(p, OpenError(f), fs[f])
                /\ UNCHANGED <<fs, created, pos>>
    /\ UNCHANGED <<fsBefore, url, output_filename, qr, img, out>>
    /\ UNCHANGED <<envVars, mainVars, testVars>>

\* Variant: a save that keeps the image in memory and puts it in the file in
\* one piece with its last write.
SaveWriteBuffered(p) ==
    /\ pc[p] = "writing"
    /\ pos[p] < ImgChunks
    /\ LET f == output_filename[p]
       IN  fs' = IF pos[p] + 1 = ImgChunks
                 THEN [fs EXCEPT ![f] = ImageFile(img[p])]
                 ELSE fs
    /\ pos' = [pos EXCEPT ![p] = @ + 1]
    /\ pc' = [pc EXCEPT ![p] = IF pos[p] + 1 = ImgChunks THEN "print" ELSE "writing"]
    /\ UNCHANGED <<fsBefore, url, output_filename, qr, img, created, out, exc, hist>>
    /\ UNCHANGED <<envVars, mainVars, testVars>>

\* Line 18, one write of save at the handle's own offset; the last one is
\* followed by the close and save returns.
SaveWrite(p) ==
    /\ pc[p] = "writing"
    /\ pos[p] < ImgChunks
    /\ LET f == output_filename[p]
       IN  fs' = [fs EXCEPT ![f] =
                    [exists |-> TRUE,
                     data |-> WriteAt(fs[f].data, pos[p], Chunk(img[p], pos[p] + 1))]]
    /\ pos' = [pos EXCEPT ![p] = @ + 1]
    /\ pc' = [pc EXCEPT ![p] = IF pos[p] + 1 = ImgChunks THEN "print" ELSE "writing"]
    /\ UNCHANGED <<fsBefore, url, output_filename, qr, img, created, out, exc, hist>>
    /\ UNCHANGED <<envVars, mainVars, testVars>>

\* Line 18, a write of save that the device refuses: OSError.  The library
\* closes the file and, depending on its version, removes a file it created.
SaveWriteFail(p) ==
    /\ pc[p] = "writing"
    /\ diskFull
    /\ \E cleanup \in BOOLEAN :
         LET f == output_filename[p]
             after == IF cleanup /\ created[p] THEN Absent ELSE fs[f]
         IN  /\ fs' = [fs EXCEPT ![f] = after]
             /\ Raise(p, "OSError(ENOSPC)", after)
    /\ UNCHANGED <<fsBefore, url, output_filename, qr, img, pos, created, out>>
    /\ UNCHANGED <<envVars, mainVars, testVars>>

\* Line 19: the second print, and the return.
PrintSaved(p) ==
    /\ pc[p] = "print"
    /\ out' = [out EXCEPT ![p] =
                 Append(@, "Successfully saved QR code to {output_filename}")]
    /\ pc' = [pc EXCEPT ![p] = "returned"]
    /\ hist' = [hist EXCEPT ![p] =
                  Append(@, CallRecord(p, "returned", "none", fs[output_filename[p]]))]
    /\ UNCHANGED <<fs, fsBefore, url, output_filename, qr, img, pos, created, exc>>
    /\ UNCHANGED <<envVars, mainVars, testVars>>

\* The process is killed while save is writing.
Crash(p) ==
    /\ pc[p] = "writing"
    /\ pc' = [pc EXCEPT ![p] = "crashed"]
    /\ UNCHANGED <<fs, fsBefore, url, output_filename, qr, img, pos, created, out,
                   exc, hist>>
    /\ UNCHANGED <<envVars, mainVars, testVars>>

-----------------------------------------------------------------------------
(* Callers. *)

\* A caller that imports the module and calls generate_qr_code directly.
DirectCall(p) ==
    /\ entry = "direct"
    /\ pc[p] = "idle"
    /\ \E t \in Targets, f \in Paths : Call(p, t, f)
    /\ UNCHANGED <<envVars, mainVars, testVars>>

\* The same caller calls again with the same arguments.
CallAgain(p) ==
    /\ entry = "direct"
    /\ Finished(p)
    /\ Len(hist[p]) < MaxCalls
    /\ Call(p, url[p], output_filename[p])
    /\ UNCHANGED <<envVars, mainVars, testVars>>

\* Variant: a main that takes the output path from its command line.
MainCallWithArgument ==
    /\ entry = "main"
    /\ mpc = "start"
    /\ \E f \in Paths : Call(1, MainUrl, f)
    /\ mpc' = "in_call"
    /\ UNCHANGED <<envVars, exitStatus, testVars>>

\* Lines 22-26 and 29-30: the script entry point calls main, which calls
\* generate_qr_code with its two literals.
MainCall ==
    /\ entry = "main"
    /\ mpc = "start"
    /\ Call(1, MainUrl, MainFilename)
    /\ mpc' = "in_call"
    /\ UNCHANGED <<envVars, exitStatus, testVars>>

\* generate_qr_code and main return: the interpreter exits with status 0.
MainReturn ==
    /\ mpc = "in_call"
    /\ pc[1] = "returned"
    /\ mpc' = "exited"
    /\ exitStatus' = 0
    /\ UNCHANGED <<fs, fsBefore, genVars, envVars, testVars>>

\* Variant: a main that catches the exception and ends normally.
MainSwallow ==
    /\ mpc = "in_call"
    /\ pc[1] = "raised"
    /\ mpc' = "exited"
    /\ exitStatus' = 0
    /\ UNCHANGED <<fs, fsBefore, genVars, envVars, testVars>>

\* The exception passes through main, which has no handler either: the
\* interpreter prints the traceback and exits with status 1.
MainUncaught ==
    /\ mpc = "in_call"
    /\ pc[1] = "raised"
    /\ mpc' = "exited"
    /\ exitStatus' = 1
    /\ UNCHANGED <<fs, fsBefore, genVars, envVars, testVars>>

-----------------------------------------------------------------------------
(* The test module, tests/test_main.py, run by the test runner as process 1. *)

\* os.remove(filename) needs a directory that accepts changes.
CanRemove(f) == cwdWritable

\* Line 4: from main import generate_qr_code. main is found when its
\* directory is on sys.path; otherwise the import raises and the module is
\* not loaded.
TestImportMain ==
    /\ entry = "test"
    /\ tpc = "load"
    /\ IF "src" \in sysPath
       THEN imported' = "ok" /\ tpc' = "append"
       ELSE imported' = "failed" /\ tpc' = "import_error"
    /\ UNCHANGED <<sysPath, appended, outcome>>
    /\ UNCHANGED <<fs, fsBefore, genVars, envVars, mainVars>>

\* Line 8: sys.path.append(<repository>/src).
TestPathAppend ==
    /\ tpc = "append"
    /\ sysPath' = sysPath \cup {"src"}
    /\ appended' = TRUE
    /\ tpc' = "collected"
    /\ UNCHANGED <<imported, outcome>>
    /\ UNCHANGED <<fs, fsBefore, genVars, envVars, mainVars>>

\* Lines 11-16: the test starts and removes a scratch file left behind.
TestPreClean ==
    /\ tpc = "collected"
    /\ IF fs[TestFilename].exists
       THEN IF CanRemove(TestFilename)
            THEN /\ fs' = [fs EXCEPT ![TestFilename] = Absent]
                 /\ tpc' = "call"
                 /\ UNCHANGED outcome
            ELSE /\ tpc' = "done"
                 /\ outcome' = "error"
                 /\ UNCHANGED fs
       ELSE /\ tpc' = "call"
            /\ UNCHANGED <<fs, outcome>>
    /\ UNCHANGED <<sysPath, imported, appended>>
    /\ UNCHANGED <<fsBefore, genVars, envVars, mainVars>>

\* Line 19: generate_qr_code(url, filename).
TestCall ==
    /\ tpc = "call"
    /\ Call(1, TestUrl, TestFilename)
    /\ tpc' = "in_call"
    /\ UNCHANGED <<sysPath, imported, appended, outcome>>
    /\ UNCHANGED <<envVars, mainVars>>

\* The call is over: on a return the assertions follow, on an exception the
\* try block is left for the finally clause.
TestAfterCall ==
    /\ tpc = "in_call"
    /\ Finished(1)
    /\ IF pc[1] = "returned"
       THEN tpc' = "assert_exists" /\ UNCHANGED outcome
       ELSE tpc' = "finally" /\ outcome' = "raised"
    /\ UNCHANGED <<sysPath, imported, appended>>
    /\ UNCHANGED <<fs, fsBefore, genVars, envVars, mainVars>>

\* Line 22: assert os.path.exists(filename).
TestAssertExists ==
    /\ tpc = "assert_exists"
    /\ IF fs[TestFilename].exists
       THEN tpc' = "assert_size" /\ UNCHANGED outcome
       ELSE tpc' = "finally" /\ outcome' = "assert_failed"
    /\ UNCHANGED <<sysPath, imported, appended>>
    /\ UNCHANGED <<fs, fsBefore, genVars, envVars, mainVars>>

\* Line 25: assert os.path.getsize(filename) > 0.
TestAssertSize ==
    /\ tpc = "assert_size"
    /\ tpc' = "finally"
    /\ outcome' = IF FileSize(fs[TestFilename]) > 0 THEN "passed" ELSE "assert_failed"
    /\ UNCHANGED <<sysPath, imported, appended>>
    /\ UNCHANGED <<fs, fsBefore, genVars, envVars, mainVars>>

\* Variant: the cleanup as the last statement of the try block, reached only
\* when both assertions passed.
TestCleanupOnSuccess ==
    /\ tpc = "finally"
    /\ tpc' = "done"
    /\ IF fs[TestFilename].exists /\ outcome = "passed"
       THEN IF CanRemove(TestFilename)
            THEN fs' = [fs EXCEPT ![TestFilename] = Absent] /\ UNCHANGED outcome
            ELSE outcome' = "error" /\ UNCHANGED fs
       ELSE UNCHANGED <<fs, outcome>>
    /\ UNCHANGED <<sysPath, imported, appended>>
    /\ UNCHANGED <<fsBefore, genVars, envVars, mainVars>>

\* Lines 27-30: the finally clause, run on every way out of the try block.
TestFinally ==
    /\ tpc = "finally"
    /\ tpc' = "done"
    /\ IF fs[TestFilename].exists
       THEN IF CanRemove(TestFilename)
            THEN fs' = [fs EXCEPT ![TestFilename] = Absent] /\ UNCHANGED outcome
            ELSE outcome' = "error" /\ UNCHANGED fs
       ELSE UNCHANGED <<fs, outcome>>
    /\ UNCHANGED <<sysPath, imported, appended>>
    /\ UNCHANGED <<fsBefore, genVars, envVars, mainVars>>

-----------------------------------------------------------------------------
(* Initial states. *)

\* What a relative path may hold before a run: nothing, or the image an
\* earlier run left there.
InitFiles == {Absent, StaleFile}

InitFs ==
    /\ fs \in {g \in [Paths -> InitFiles] : ~g[BadPath].exists}
    /\ fsBefore = fs
    /\ cwdWritable \in BOOLEAN
    /\ diskFull \in BOOLEAN

InitGen ==
    /\ pc = [p \in Procs |-> "idle"]
    /\ url = [p \in Procs |-> Str("8BIT_BYTE", 0)]
    /\ output_filename = [p \in Procs |-> ""]
    /\ qr = [p \in Procs |-> NoQr]
    /\ img = [p \in Procs |-> NoImg]
    /\ pos = [p \in Procs |-> 0]
    /\ created = [p \in Procs |-> FALSE]
    /\ out = [p \in Procs |-> << >>]
    /\ exc = [p \in Procs |-> "none"]
    /\ hist = [p \in Procs |-> << >>]

InitMain ==
    /\ mpc = "start"
    /\ exitStatus = -1

InitTest ==
    /\ tpc = "idle"
    /\ sysPath = {"tests"}
    /\ imported = "no"
    /\ appended = FALSE
    /\ outcome = "none"

\* One process: the script run as a program, or a caller of the function.
Init ==
    /\ InitFs
    /\ InitGen
    /\ InitMain
    /\ InitTest
    /\ entry \in {"main", "direct"}

Next ==
    \/ DirectCall(1)
    \/ CallAgain(1)
    \/ MainCall
    \/ MainReturn
    \/ MainUncaught
    \/ GenBegin(1)
    \/ QrMake(1)
    \/ QrMakeImage(1)
    \/ SaveOpen(1)
    \/ SaveWrite(1)
    \/ SaveWriteFail(1)
    \/ PrintSaved(1)
    \/ Crash(1)

Spec == Init /\ [][Next]_vars

\* Two processes call generate_qr_code concurrently, each once.
RaceTargets == {MainUrl, Str("NUMBER", 1)}
RacePaths == {MainFilename, TestFilename}

RaceCall(p) ==
    /\ entry = "race"
    /\ pc[p] = "idle"
    /\ \E t \in RaceTargets, f \in RacePaths : Call(p, t, f)
    /\ UNCHANGED <<envVars, mainVars, testVars>>

InitRace ==
    /\ InitFs
    /\ ~diskFull
    /\ InitGen
    /\ InitMain
    /\ InitTest
    /\ entry = "race"

NextRace ==
    \E p \in Procs :
        \/ RaceCall(p)
        \/ GenBegin(p)
        \/ QrMake(p)
        \/ QrMakeImage(p)
        \/ SaveOpen(p)
        \/ SaveWrite(p)
        \/ PrintSaved(p)

SpecRace == InitRace /\ [][NextRace]_vars

\* The test runner loads the test module and runs its test.
InitTestRun ==
    /\ InitFs
    /\ InitGen
    /\ InitMain
    /\ tpc = "load"
    /\ sysPath \in {{"tests"}, {"tests", "src"}}
    /\ imported = "no"
    /\ appended = FALSE
    /\ outcome = "none"
    /\ entry = "test"

NextTest ==
    \/ TestImportMain
    \/ TestPathAppend
    \/ TestPreClean
    \/ TestCall
    \/ TestAfterCall
    \/ TestAssertExists
    \/ TestAssertSize
    \/ TestFinally
    \/ GenBegin(1)
    \/ QrMake(1)
    \/ QrMakeImage(1)
    \/ SaveOpen(1)
    \/ SaveWrite(1)
    \/ SaveWriteFail(1)
    \/ PrintSaved(1)

SpecTest == InitTestRun /\ [][NextTest]_vars

-----------------------------------------------------------------------------
(* Vocabulary of the properties. *)

\* Capacity stated on the bit limits themselves, not through the search.
FitsVersion(t, v) == NeededBits(<< t >>, v) <= BitLimit(v)
IsSmallestVersion(t, v) ==
    /\ v \in Version..MaxVersion
    /\ FitsVersion(t, v)
    /\ \A w \in Version..(v - 1) : ~FitsVersion(t, w)

\* The same, tabulated once for every string the model passes around.
KnownTargets == Targets \cup RaceTargets \cup {MainUrl, TestUrl, StaleUrl}
Capacity ==
    [t \in KnownTargets |->
        [fits |-> \E v \in 1..MaxVersion : FitsVersion(t, v),
         smallest |-> IF \E v \in Version..MaxVersion : FitsVersion(t, v)
                      THEN CHOOSE v \in Version..MaxVersion : IsSmallestVersion(t, v)
                      ELSE 0]]

FitsSomeVersion(t) == Capacity[t].fits
ExceedsConfigured(t) == ~FitsVersion(t, Version)
SmallestVersion(t, v) == Capacity[t].fits /\ v = Capacity[t].smallest

\* The output path of the current call could be opened for writing when the
\* call was made, and the device takes the data.
WritablePath(p) ==
    /\ output_filename[p] # BadPath
    /\ fsBefore[output_filename[p]].exists \/ cwdWritable
    /\ ~diskFull

NonEmptyFile(file) == file.exists /\ FileSize(file) > 0

Count(seq, x) == Cardinality({k \in 1..Len(seq) : seq[k] = x})
SavedLine == "Successfully saved QR code to {output_filename}"
GeneratingLine == "Generating QR code for: {url}"

\* Every image some file holds a part of.
ImagesOnDisk ==
    UNION {{fs[f].data[k].img : k \in 1..Len(fs[f].data)} : f \in Paths} \ {NoImg}

StrictPrefix(data, full) ==
    /\ Len(data) < Len(full)
    /\ \A k \in 1..Len(data) : data[k] = full[k]

-----------------------------------------------------------------------------
(* Properties of generate_qr_code and of main, checked under Spec. *)

\* C1 as stated: for every non-empty target and every writable output path,
\* once generate_qr_code has run (returned or raised), a file exists at the
\* path and its size is greater than zero.
C1_AnyTargetLeavesFile ==
    \A p \in Procs :
        (Finished(p) /\ url[p].len > 0 /\ WritablePath(p))
            => NonEmptyFile(fs[output_filename[p]])

\* C1 amended: for every non-empty target whose payload fits some symbol
\* version at level L and every writable output path, once generate_qr_code
\* has run, it has returned and a file of size greater than zero exists at
\* the path.
C1_FittingTargetLeavesFile ==
    \A p \in Procs :
        (Finished(p) /\ url[p].len > 0 /\ FitsSomeVersion(url[p]) /\ WritablePath(p))
            => /\ pc[p] = "returned"
               /\ NonEmptyFile(fs[output_filename[p]])

C1_Witness ==
    /\ pc[1] = "returned"
    /\ WritablePath(1)
    /\ ~fsBefore[output_filename[1]].exists
    /\ NonEmptyFile(fs[output_filename[1]])

\* C2: a second call in sequence with the same arguments overwrites the file
\* of the first; it never fails on the file being there (without a device
\* fault it returns), and it leaves what the first call left: the complete,
\* non-empty image of the target.
C2_Idempotent ==
    \A p \in Procs : \A k \in 1..(Len(hist[p]) - 1) :
        LET first == hist[p][k]
            second == hist[p][k + 1]
        IN  (/\ first.result = "returned"
             /\ second.url = first.url
             /\ second.output_filename = first.output_filename)
            => /\ second.result = "raised" => (diskFull /\ second.exc = "OSError(ENOSPC)")
               /\ second.result = "returned" =>
                    /\ second.file = first.file
                    /\ NonEmptyFile(second.file)
                    /\ second.file = ImageFile(ImageOf(second.url))

C2_Witness ==
    /\ Len(hist[1]) = 2
    /\ hist[1][1].result = "returned"
    /\ hist[1][2].result = "returned"
    /\ hist[1][2].url = hist[1][1].url
    /\ fs[output_filename[1]] = hist[1][1].file

\* C4 as stated: every image is produced with symbol version 1, level L,
\* module size 10, border 4, black on white, whatever the target.
C4_FixedVersionOne ==
    \A i \in ImagesOnDisk :
        /\ i.version = Version
        /\ i.box_size = BoxSize
        /\ i.border = Border
        /\ i.fill_color = FillColor
        /\ i.back_color = BackColor

\* C4 amended: every image is produced with level L, module size 10,
\* border 4, black on white, whatever the target; version 1 is only where
\* fit sizing starts, and the image's version is the smallest one from 1
\* that holds the target.
C4_FixedConfiguration ==
    /\ \A i \in ImagesOnDisk :
        /\ i.box_size = BoxSize
        /\ i.border = Border
        /\ i.fill_color = FillColor
        /\ i.back_color = BackColor
        /\ Len(i.data) = 1
        /\ SmallestVersion(i.data[1], i.version)
        /\ PixelSize(i) = (17 + 4 * i.version + 2 * 4) * 10
    /\ \A p \in Procs :
        qr[p] # NoQr =>
            /\ qr[p].error_correction = ERROR_CORRECT_L
            /\ qr[p].box_size = BoxSize
            /\ qr[p].border = Border
            /\ pc[p] = "make" => qr[p].version = Version

C4_Witness ==
    /\ pc[1] = "returned"
    /\ fs[output_filename[1]] = ImageFile(img[1])
    /\ img[1].version = 2
    /\ img[1].box_size = BoxSize
    /\ url[1] = MainUrl

\* C5: a failure of generate_qr_code propagates: the call that raised made no
\* later step (after an encoding failure no image and no write, after a
\* failed open no write), nothing resumes it, the success line is printed
\* once per call that returned and never by one that raised, a call returns
\* only when the payload fits and the path opens, and main exits with a
\* non-zero status exactly when its call raised.
C5_Invariant ==
    /\ \A p \in Procs :
        /\ Count(out[p], SavedLine)
             = Cardinality({k \in 1..Len(hist[p]) : hist[p][k].result = "returned"})
        /\ Count(out[p], GeneratingLine)
             = Len(hist[p]) + (IF pc[p] \in {"idle", "begin", "returned", "raised"}
                               THEN 0 ELSE 1)
        /\ pc[p] = "raised" =>
             /\ exc[p] # "none"
             /\ exc[p] = "DataOverflowError" =>
                  (img[p] = NoImg /\ fs[output_filename[p]] = fsBefore[output_filename[p]])
             /\ exc[p] \in {"FileNotFoundError", "PermissionError"} =>
                  (pos[p] = 0 /\ fs[output_filename[p]] = fsBefore[output_filename[p]])
        /\ pc[p] = "returned" =>
             /\ exc[p] = "none"
             /\ FitsSomeVersion(url[p])
             /\ output_filename[p] # BadPath
             /\ fs[output_filename[p]] = ImageFile(img[p])
    /\ mpc = "exited" =>
         /\ exitStatus = 0 <=> pc[1] = "returned"
         /\ exitStatus # 0 <=> pc[1] = "raised"
    /\ (entry = "main" /\ pc[1] = "raised") => exitStatus \in {-1, 1}

C5_NoResume ==
    \A p \in Procs :
        pc[p] = "raised" =>
            \/ pc'[p] = "raised" /\ fs' = fs /\ out'[p] = out[p]
            \/ pc'[p] = "begin" /\ entry = "direct"

\* C5: in every state a failure has propagated as C5_Invariant says, and no
\* step resumes or retries a call that raised: it stays raised, writes and
\* prints nothing, until a direct caller makes a new call.
C5_FailurePropagates == [](C5_Invariant) /\ [][C5_NoResume]_vars

C5_Witness ==
    /\ entry = "main"
    /\ mpc = "exited"
    /\ exitStatus = 1
    /\ pc[1] = "raised"
    /\ Count(out[1], SavedLine) = 0

\* C6: main takes no input; every run calls generate_qr_code once, with the
\* literal target and the literal output path; no other file is created or
\* changed, and on success website_qr.png exists and is non-empty.
C6_MainLiterals ==
    entry = "main" =>
        /\ pc[1] # "idle" => (url[1] = MainUrl /\ output_filename[1] = MainFilename)
        /\ Count(out[1], GeneratingLine) <= 1
        /\ Len(hist[1]) <= 1
        /\ mpc = "start" <=> pc[1] = "idle"
        /\ mpc = "exited" => Len(hist[1]) = 1
        /\ \A f \in Paths \ {MainFilename} : fs[f] = fsBefore[f]
        /\ (mpc = "exited" /\ exitStatus = 0) =>
             /\ NonEmptyFile(fs[MainFilename])
             /\ fs[MainFilename] = ImageFile(ImageOf(MainUrl))

C6_Witness ==
    /\ entry = "main"
    /\ mpc = "exited"
    /\ exitStatus = 0
    /\ fs[TestFilename] = StaleFile
    /\ ~fsBefore[MainFilename].exists
    /\ NonEmptyFile(fs[MainFilename])

\* C8: the write is not atomic. A crash while save is writing leaves, at the
\* final path itself, a strict prefix of the new image: not the complete
\* image, and not the previous contents when those were no file or a
\* complete image. No other path is touched (no temporary file, no rename).
C8_CrashLeavesPartial ==
    \A p \in Procs :
        /\ pc[p] = "crashed" =>
             LET f == output_filename[p]
             IN  /\ fs[f].exists
                 /\ FileSize(fs[f]) = pos[p]
                 /\ StrictPrefix(fs[f].data, ImageFile(img[p]).data)
                 /\ fs[f] # ImageFile(img[p])
                 /\ fsBefore[f] \in {Absent, StaleFile, ImageFile(img[p])}
                      => fs[f] # fsBefore[f]
        /\ pc[p] \in {"writing", "crashed", "print"} =>
             \A g \in Paths \ {output_filename[p]} : fs[g] = fsBefore[g]

C8_Witness ==
    /\ pc[1] = "crashed"
    /\ pos[1] > 0
    /\ fsBefore[output_filename[1]] = StaleFile
    /\ fs[output_filename[1]] # StaleFile
    /\ fs[output_filename[1]] # ImageFile(img[1])

\* C10: no capacity check, fit sizing always. A target that exceeds version 1
\* but fits a larger version does not fail: the version is raised and a
\* non-empty file is written. Only a target that fits no version fails at
\* make, and then save is never reached and the file at the output path is
\* neither created nor changed.
C10_FitOrFail ==
    \A p \in Procs :
        /\ pc[p] \in {"make_image", "save", "writing", "print", "returned", "crashed"}
             => (FitsSomeVersion(url[p]) /\ SmallestVersion(url[p], qr[p].version))
        /\ (Finished(p) /\ ExceedsConfigured(url[p]) /\ FitsSomeVersion(url[p])
              /\ WritablePath(p))
             => /\ pc[p] = "returned"
                /\ qr[p].version > Version
                /\ NonEmptyFile(fs[output_filename[p]])
        /\ Finished(p) =>
             (exc[p] = "DataOverflowError" <=> ~FitsSomeVersion(url[p]))
        /\ (Finished(p) /\ ~FitsSomeVersion(url[p])) =>
             /\ pc[p] = "raised"
             /\ img[p] = NoImg
             /\ fs[output_filename[p]] = fsBefore[output_filename[p]]

C10_Witness ==
    /\ pc[1] = "returned"
    /\ ExceedsConfigured(url[1])
    /\ qr[1].version = MaxVersion
    /\ NonEmptyFile(fs[output_filename[1]])
    /\ ~fsBefore[output_filename[1]].exists

-----------------------------------------------------------------------------
(* Concurrent runs, checked under SpecRace. *)

\* C9: the output path is not locked: a run's open never waits for another
\* run. When two runs with different targets have both returned, both have
\* printed the success line; on the same path the file is, write by write,
\* made of the two runs' images (either image complete, or a mix); on
\* different paths each file is the complete image of its own run.
C9_UnlockedRace ==
    /\ \A p \in Procs :
         (pc[p] = "save" /\ CanOpen(output_filename[p])) =>
             ENABLED (SaveOpen(p) /\ pc'[p] = "writing")
    /\ (pc[1] = "returned" /\ pc[2] = "returned") =>
         /\ \A p \in Procs : Count(out[p], SavedLine) = 1
         /\ output_filename[1] = output_filename[2] =>
              LET file == fs[output_filename[1]]
              IN  /\ file.exists
                  /\ FileSize(file) = ImgChunks
                  /\ \A k \in 1..ImgChunks :
                       file.data[k] \in {Chunk(img[1], k), Chunk(img[2], k)}
    /\ \A p \in Procs :
         (pc[p] = "returned" /\ \A q \in Procs \ {p} : output_filename[q] # output_filename[p])
             => fs[output_filename[p]] = ImageFile(img[p])

C9_Witness ==
    /\ pc[1] = "returned"
    /\ pc[2] = "returned"
    /\ output_filename[1] = output_filename[2]
    /\ url[1] # url[2]
    /\ fs[output_filename[1]] # ImageFile(img[1])
    /\ fs[output_filename[1]] # ImageFile(img[2])
    /\ Count(out[1], SavedLine) = 1
    /\ Count(out[2], SavedLine) = 1

-----------------------------------------------------------------------------
(* The test module, checked under SpecTest. *)

\* C3: whatever the outcome of the test (passed, an assertion failed,
\* generate_qr_code raised), test_qr.png does not exist when the test ends,
\* and it did not exist when generate_qr_code was called.
C3_ScratchFileCleaned ==
    /\ (tpc = "done" /\ outcome \in {"passed", "assert_failed", "raised"})
         => ~fs[TestFilename].exists
    /\ tpc \in {"in_call", "assert_exists", "assert_size", "finally"}
         => ~fsBefore[TestFilename].exists
    /\ (tpc = "in_call" /\ pc[1] = "begin") => ~fs[TestFilename].exists

C3_Witness ==
    /\ tpc = "done"
    /\ outcome = "raised"
    /\ Len(hist[1]) = 1
    /\ hist[1][1].file.exists
    /\ ~fs[TestFilename].exists

\* C7: the sys.path amendment is in effect before the import of main is
\* executed.
C7_PathBeforeImport == imported # "no" => appended

====
